---- MODULE Spec2Model ----
(***************************************************************************)
(* Model of SYNEX/SYNEX_Telescopes.py: the Athena instrument, its          *)
(* construction from defaults or from a pickled snapshot (resurrection),   *)
(* the mutation decision, the versioning of the tesselation, orbit and     *)
(* save files, and the save routine ExistentialCrisis.                     *)
(*                                                                         *)
(* Strings are sequences of tokens.  A token is a separator ("/", "_",     *)
(* "."), one decimal digit, or a word that holds no separator and is not   *)
(* a number, so Python's str.split / str.join / int on the modelled paths  *)
(* act on tokens exactly as they act on characters.  Every parameter value *)
(* is such a sequence; None is the one-token sequence <<"None">>.          *)
(***************************************************************************)
EXTENDS Integers, Sequences, FiniteSets, TLC

VARIABLES
    MPI_size,              \* size of MPI.COMM_WORLD; 0 when mpi4py is missing (MPI = None)
    files,                 \* paths of the files that exist on the shared disk
    pickles,               \* save-file path -> the dictionary pickled there
    go_params_default,     \* per process: module dict SYNEX.gwemopt_defaults.go_params_default
    config_struct_default, \* per process: module dict SYNEX.gwemopt_defaults.config_struct_default
    PermissionToWrite,     \* per process: self.PermissionToWrite of its last instrument ("unset" before)
    self,                  \* the instrument constructed last (its __dict__), NoInstance before
    call,                  \* the last constructor call: its arguments, locals and disk effects
    written,               \* the paths the last operation wrote to
    ncalls,                \* constructor calls made so far
    nsaves,                \* explicit saves made so far
    kuiper                 \* the run of self.GetKuiper: its position, locals and traces

vars == << MPI_size, files, pickles, go_params_default, config_struct_default,
           PermissionToWrite, self, call, written, ncalls, nsaves, kuiper >>

----------------------------------------------------------------------------
(* Bounds of the model *)

\* earlier runs of the program that left their files on the disk
MaxPrior == 2
\* largest MPI communicator
MaxProcs == 2
\* explicit saves (calls of ExistentialCrisis from outside the constructor)
MaxSaves == 1
\* instruments that one process constructs one after the other
MaxCalls == 2

----------------------------------------------------------------------------
(* Python string primitives on token sequences *)

None == <<"None">>

DigitTok == <<"0", "1", "2", "3", "4", "5", "6", "7", "8", "9">>

IsDigit(t) == \E d \in 1..10 : DigitTok[d] = t

DigitVal(t) == (CHOOSE d \in 1..10 : DigitTok[d] = t) - 1

\* str(n) for n >= 0
RECURSIVE Str(_)
Str(n) == IF n < 10 THEN << DigitTok[n + 1] >>
          ELSE Str(n \div 10) \o << DigitTok[(n % 10) + 1] >>

\* int(s) raises ValueError unless s is a non-empty run of digits
CanInt(s) == Len(s) > 0 /\ \A i \in 1..Len(s) : IsDigit(s[i])

RECURSIVE IntVal(_)
IntVal(s) == IF Len(s) = 0 THEN 0
             ELSE 10 * IntVal(SubSeq(s, 1, Len(s) - 1)) + DigitVal(s[Len(s)])

\* start positions of the occurrences of pat in s
Occurrences(s, pat) ==
    { i \in 1..(Len(s) - Len(pat) + 1) : SubSeq(s, i, i + Len(pat) - 1) = pat }

Contains(s, pat) == Occurrences(s, pat) # {}

MaxOf(S) == CHOOSE x \in S : \A y \in S : y <= x
MinOf(S) == CHOOSE x \in S : \A y \in S : x <= y

\* s.split(pat)[-1]
SplitLast(s, pat) ==
    IF Contains(s, pat)
    THEN SubSeq(s, MaxOf(Occurrences(s, pat)) + Len(pat), Len(s))
    ELSE s

\* s.split(pat)[0]
SplitFirst(s, pat) ==
    IF Contains(s, pat)
    THEN SubSeq(s, 1, MinOf(Occurrences(s, pat)) - 1)
    ELSE s

\* pat.join(s.split(pat)[:-1]) : everything before the last pat, "" when s holds no pat
JoinButLast(s, pat) ==
    IF Contains(s, pat)
    THEN SubSeq(s, 1, MaxOf(Occurrences(s, pat)) - 1)
    ELSE << >>

----------------------------------------------------------------------------
(* Python dict primitives.  **kwargs is an ordered dict: a sequence of     *)
(* <<key, value>> pairs with distinct keys.  The parameter dictionaries    *)
(* are functions from keys to values.                                      *)

KeysOf(kwargs) == { kwargs[i][1] : i \in 1..Len(kwargs) }

\* kwargs[key]
Get(kwargs, key) == kwargs[CHOOSE i \in 1..Len(kwargs) : kwargs[i][1] = key][2]

\* del kwargs[key] / kwargs.pop(key)
Del(kwargs, key) == SelectSeq(kwargs, LAMBDA kv : kv[1] # key)

\* kwargs[key] = value for a key already present (the position is kept)
SetItem(kwargs, key, value) ==
    [ i \in 1..Len(kwargs) |-> IF kwargs[i][1] = key THEN << key, value >> ELSE kwargs[i] ]

\* d[key] = value
Put(d, key, value) == [ k \in (DOMAIN d) \cup {key} |-> IF k = key THEN value ELSE d[k] ]

\* del d[key]
Remove(d, key) == [ k \in (DOMAIN d) \ {key} |-> d[k] ]

----------------------------------------------------------------------------
(* Paths and default dictionaries *)

SYNEX_PATH == << "/", "SYNEX" >>

Saved_Telescope_Dicts == << "Saved", "_", "Telescope", "_", "Dicts" >>
gwemopt_tess_files    == << "gwemopt", "_", "tess", "_", "files" >>
orbit_files           == << "orbit", "_", "files" >>

\* "/".join(path.split("/")[:-1])
DirOf(path) == JoinButLast(path, << "/" >>)

\* pathlib.Path(dir).mkdir(parents=True, exist_ok=True) raises for a directory this
\* machine cannot create: here the tree of another machine, /cluster/...
MkdirFails(dir) == Len(dir) >= 2 /\ dir[1] = "/" /\ dir[2] = "cluster"

\* SYNEX_PATH+"/"+path.split("/SYNEX/")[-1]
ToSynexPath(path) == SYNEX_PATH \o << "/" >> \o SplitLast(path, << "/", "SYNEX", "/" >>)

\* SYNEX/gwemopt_defaults.py as imported, before any constructor has touched it
go_params_default0 ==
    [ Tobs             |-> << "0", "1" >>,
      doSingleExposure |-> << "False" >>,
      tilesType        |-> << "moc" >>,
      Ntiles           |-> << "5", "0" >> ]

config_struct_default0 ==
    [ telescope       |-> << "Athena" >>,
      tesselationFile |-> None,
      orbitFile       |-> None,
      FOV_type        |-> << "circle" >>,
      inc             |-> << "6", "0" >> ]

\* telescope_source_coverage = None
NoCoverage == [ isNone |-> TRUE, JsonFile |-> None, H5File |-> None, SaveFile |-> None ]

----------------------------------------------------------------------------
(* Athena.__init__, lines 78-86: the write permission *)

\* use_mpi = (MPI_size > 1) when mpi4py was imported, False otherwise
use_mpi(size) == size > 1

\* a bug: the communicator is not looked at
PermissionAlways(size) == TRUE

\* self.PermissionToWrite = not use_mpi
PermissionOf(size) == ~ use_mpi(size)

----------------------------------------------------------------------------
(* Athena.__init__, lines 89-94: directory of NewExistentialFileName *)

CheckNewExistentialPath(kwargs) ==
    IF "NewExistentialFileName" \in KeysOf(kwargs)
       /\ MkdirFails(DirOf(Get(kwargs, "NewExistentialFileName")))
    THEN SetItem(kwargs, "NewExistentialFileName",
                 ToSynexPath(Get(kwargs, "NewExistentialFileName")))
    ELSE kwargs

----------------------------------------------------------------------------
(* Athena.__init__, lines 117-137: the coverage of the loaded dictionary,  *)
(* its three file references adapted to this machine                       *)

\* lines 120-122: a reference holding "/SYNEX/" is moved under SYNEX_PATH
AdaptToArchitecture(ref) ==
    IF ref # None /\ Contains(ref, << "/", "SYNEX", "/" >>) THEN ToSynexPath(ref) ELSE ref

\* lines 124-135: a reference to a missing file is replaced by the file of the same
\* name under the sub-directory of the save file, when that one exists
FileWithArch(dir, ExistentialFileName, ref) ==
    SYNEX_PATH \o << "/" >> \o dir \o << "/" >>
    \o DirOf(SplitLast(ExistentialFileName, << "/" >> \o Saved_Telescope_Dicts \o << "/" >>))
    \o << "/" >> \o SplitLast(ref, << "/" >>)

CheckArchitecture(dir, ExistentialFileName, ref, disk) ==
    IF ref # None /\ ref \notin disk
       /\ FileWithArch(dir, ExistentialFileName, ref) \in disk
    THEN FileWithArch(dir, ExistentialFileName, ref)
    ELSE ref

LoadCoverage(SavedDict, ExistentialFileName, disk) ==
    IF "telescope_source_coverage" \in SavedDict.attrs
       /\ ~ SavedDict.telescope_source_coverage.isNone
    THEN LET cov == SavedDict.telescope_source_coverage
         IN [ isNone   |-> FALSE,
              JsonFile |-> CheckArchitecture(<< "inference", "_", "param", "_", "files" >>,
                              ExistentialFileName, AdaptToArchitecture(cov.JsonFile), disk),
              H5File   |-> CheckArchitecture(<< "inference", "_", "data" >>,
                              ExistentialFileName, AdaptToArchitecture(cov.H5File), disk),
              SaveFile |-> CheckArchitecture(<< "Saved", "_", "Source", "_", "Dicts" >>,
                              ExistentialFileName, AdaptToArchitecture(cov.SaveFile), disk) ]
    ELSE NoCoverage

\* a bug: the tile structure of the save file is not read
LoadTileStructDropped(SavedDict) == None

\* lines 138-145
LoadTileStruct(SavedDict) ==
    IF "telescope_tile_struct" \in SavedDict.attrs
    THEN SavedDict.telescope_tile_struct
    ELSE None

\* line 146
LoadMutatedFrom(SavedDict) ==
    IF "MutatedFromTelescopeFile" \in SavedDict.attrs
    THEN SavedDict.MutatedFromTelescopeFile
    ELSE None

----------------------------------------------------------------------------
(* Athena.__init__, lines 148-159: is the loaded instrument mutated?       *)
(* kwargs is what is left of **kwargs after "verbose" was popped and       *)
(* "ExistentialFileName" deleted.                                          *)

\* a bug: only the first key of the overlay is compared
ValueCheckFirstKey(kwargs, d) ==
    IF kwargs # << >> /\ Head(kwargs)[1] \in DOMAIN d /\ Head(kwargs)[1] # "Tobs"
    THEN << Head(kwargs)[2] # d[Head(kwargs)[1]] >>
    ELSE << >>

\* [value!=d[key] for key,value in kwargs.items() if key in d and key not in ["Tobs"]]
RECURSIVE ValueCheck(_, _)
ValueCheck(kwargs, d) ==
    IF kwargs = << >> THEN << >>
    ELSE LET key   == Head(kwargs)[1]
             value == Head(kwargs)[2]
         IN  (IF key \in DOMAIN d /\ key # "Tobs" THEN << value # d[key] >> ELSE << >>)
             \o ValueCheck(Tail(kwargs), d)

\* [(key not in go) and (key not in config) for key in kwargs.keys()]
RECURSIVE KeysCheck(_, _, _)
KeysCheck(kwargs, telescope_go_params, telescope_config_struct) ==
    IF kwargs = << >> THEN << >>
    ELSE LET key == Head(kwargs)[1]
         IN  << key \notin DOMAIN telescope_go_params
                /\ key \notin DOMAIN telescope_config_struct >>
             \o KeysCheck(Tail(kwargs), telescope_go_params, telescope_config_struct)

\* any(list)
any(list) == \E i \in 1..Len(list) : list[i]

\* np.array_equal(a, b)
array_equal(a, b) == a = b

\* len(kwargs.keys())>1
SeveralKeys(kwargs) == Len(kwargs) > 1

\* a bug: the directive is not looked at
NoDirective(kwargs) == FALSE

\* "NewExistentialFileName" in kwargs
HasNewExistentialFileName(kwargs) == "NewExistentialFileName" \in KeysOf(kwargs)

Mutation(kwargs, telescope_go_params, telescope_config_struct) ==
    IF HasNewExistentialFileName(kwargs) THEN TRUE
    ELSE IF SeveralKeys(kwargs)
    THEN IF "Tobs" \in KeysOf(kwargs)
            /\ ~ array_equal(Get(kwargs, "Tobs"), telescope_go_params["Tobs"])
         THEN TRUE
         ELSE any(ValueCheck(kwargs, telescope_go_params)
                  \o ValueCheck(kwargs, telescope_config_struct)
                  \o KeysCheck(kwargs, telescope_go_params, telescope_config_struct))
    ELSE FALSE

----------------------------------------------------------------------------
(* Athena.__init__, lines 161-171: keys of the current defaults that the   *)
(* loaded dictionaries lack                                                *)

Directives2 == { "NewExistentialFileName", "NeworbitFile" }

BackFillOne(d, default, key, value) ==
    IF key \in DOMAIN default /\ key \notin DOMAIN d /\ key \notin Directives2
    THEN Put(d, key, value)
    ELSE IF key \in DOMAIN default
    THEN Put(d, key, default[key])
    ELSE d

RECURSIVE BackFill(_, _, _)
BackFill(kwargs, d, default) ==
    IF kwargs = << >> THEN d
    ELSE BackFill(Tail(kwargs),
                  BackFillOne(d, default, Head(kwargs)[1], Head(kwargs)[2]),
                  default)

----------------------------------------------------------------------------
(* Athena.__init__, lines 181-192: the overlay is written into the two     *)
(* dictionaries; st = [go, config, print_reminder, unknown]                *)

\* a bug: an unknown key is flagged but not stored
MergeOneFlagOnly(st, key, value) ==
    IF key \in DOMAIN st.go
    THEN [ st EXCEPT !.go = Put(st.go, key, value) ]
    ELSE IF key \in DOMAIN st.config
    THEN [ st EXCEPT !.config = Put(st.config, key, value) ]
    ELSE IF key \notin Directives2
    THEN [ st EXCEPT !.print_reminder = TRUE, !.unknown = @ \cup {key} ]
    ELSE st

MergeOne(st, key, value) ==
    IF key \in DOMAIN st.go
    THEN [ st EXCEPT !.go = Put(st.go, key, value) ]
    ELSE IF key \in DOMAIN st.config
    THEN [ st EXCEPT !.config = Put(st.config, key, value) ]
    ELSE IF key \notin Directives2
    THEN [ st EXCEPT !.config = Put(st.config, key, value),
                     !.print_reminder = TRUE,
                     !.unknown = @ \cup {key} ]
    ELSE st

RECURSIVE Merge(_, _)
Merge(kwargs, st) ==
    IF kwargs = << >> THEN st
    ELSE Merge(Tail(kwargs), MergeOne(st, Head(kwargs)[1], Head(kwargs)[2]))

----------------------------------------------------------------------------
(* The version suffix, written out three times in Athena.__init__:         *)
(* lines 213-225 (tesselation file), 247-258 (orbit file) and 310-322      *)
(* (save file)                                                             *)

\* path.split("_")[-1].split(".")[0], the text int() is tried on
ExtensionNumberText(path) == SplitFirst(SplitLast(path, << "_" >>), << "." >>)

\* ".".join(path.split(".")[:-1]) + "_1." + path.split(".")[-1]
WithSuffix1(path) ==
    JoinButLast(path, << "." >>) \o << "_", "1", "." >> \o SplitLast(path, << "." >>)

\* "_".join(path.split("_")[:-1]) + "_" + str(Ext) + "." + path.split(".")[-1]
WithSuffix(path, Ext) ==
    JoinButLast(path, << "_" >>) \o << "_" >> \o Str(Ext) \o << "." >>
    \o SplitLast(path, << "." >>)

\* a bug: the probe overwrites the first candidate instead of moving on
FirstFreeVersionStuck(path, Ext, disk) == path

\* while os.path.isfile(path): Ext+=1; path = ...
RECURSIVE FirstFreeVersion(_, _, _)
FirstFreeVersion(path, Ext, disk) ==
    IF path \in disk
    THEN FirstFreeVersion(WithSuffix(path, Ext + 1), Ext + 1, disk)
    ELSE path

\* try: Ext = int(...)  except: Ext = 1; path = ..._1.ext ; then the probe
NextVersion(path, disk) ==
    IF CanInt(ExtensionNumberText(path))
    THEN FirstFreeVersion(path, IntVal(ExtensionNumberText(path)), disk)
    ELSE FirstFreeVersion(WithSuffix1(path), 1, disk)

----------------------------------------------------------------------------
(* Athena.__init__, lines 194-225: the tesselation file *)

\* lines 195-200
DefaultTesselationFile(kwargs, telescope_config_struct) ==
    IF telescope_config_struct["tesselationFile"] = None
    THEN IF "ExistentialFileName" \in KeysOf(kwargs)
         THEN JoinButLast(SYNEX_PATH \o << "/" >> \o gwemopt_tess_files
                          \o SplitLast(Get(kwargs, "ExistentialFileName"), Saved_Telescope_Dicts),
                          << "." >>) \o << ".", "tess" >>
         ELSE SYNEX_PATH \o << "/" >> \o gwemopt_tess_files \o << "/" >>
              \o telescope_config_struct["telescope"] \o << ".", "tess" >>
    ELSE telescope_config_struct["tesselationFile"]

\* a bug: the tesselation file is versioned whether or not the instrument is mutated
TesselationFileIgnoringMutated(MUTATED, kwargs, tesselationFile, disk) ==
    IF tesselationFile \in disk
    THEN IF "NewtesselationFile" \in KeysOf(kwargs)
         THEN Get(kwargs, "NewtesselationFile")
         ELSE NextVersion(tesselationFile, disk)
    ELSE tesselationFile

\* a bug: the next version is taken although a new file name was given
TesselationFileIgnoringDirective(MUTATED, kwargs, tesselationFile, disk) ==
    IF MUTATED /\ tesselationFile \in disk
    THEN NextVersion(tesselationFile, disk)
    ELSE tesselationFile

\* lines 203-225
TesselationFile(MUTATED, kwargs, tesselationFile, disk) ==
    IF MUTATED /\ tesselationFile \in disk
    THEN IF "NewtesselationFile" \in KeysOf(kwargs)
         THEN Get(kwargs, "NewtesselationFile")
         ELSE IF "NewExistentialFileName" \in KeysOf(kwargs)
         THEN JoinButLast(SYNEX_PATH \o << "/" >> \o gwemopt_tess_files
                          \o SplitLast(Get(kwargs, "NewExistentialFileName"),
                                       Saved_Telescope_Dicts),
                          << "." >>) \o << ".", "tess" >>
         ELSE NextVersion(tesselationFile, disk)
    ELSE tesselationFile

----------------------------------------------------------------------------
(* Athena.__init__, lines 227-258: the orbit file *)

\* lines 228-236.  Of the fields the name encodes the model keeps the inclination
\* and the frozen flag; each of the others is one more "_word" in the middle.
DefaultOrbitFile(telescope_config_struct) ==
    IF telescope_config_struct["orbitFile"] = None
    THEN SYNEX_PATH \o << "/" >> \o orbit_files \o << "/" >>
         \o << "Athena", "_", "inc" >> \o telescope_config_struct["inc"]
         \o << "_", "frozenTrue", ".", "dat" >>
    ELSE telescope_config_struct["orbitFile"]

\* lines 237-258
OrbitFile(MUTATED, kwargs, orbitFile, disk) ==
    IF MUTATED /\ orbitFile \in disk
    THEN IF "NeworbitFile" \in KeysOf(kwargs)
         THEN Get(kwargs, "NeworbitFile")
         ELSE IF "NewExistentialFileName" \in KeysOf(kwargs)
         THEN JoinButLast(SYNEX_PATH \o << "/" >> \o orbit_files
                          \o SplitLast(Get(kwargs, "NewExistentialFileName"),
                                       Saved_Telescope_Dicts),
                          << "." >>) \o << ".", "dat" >>
         ELSE NextVersion(orbitFile, disk)
    ELSE orbitFile

\* lines 266-271 without the test of line 268
SAVETOFILEWheneverPermitted(Permission, MUTATED, orbitFile, disk) == Permission

\* lines 266-271
SAVETOFILE(Permission, MUTATED, orbitFile, disk) ==
    IF ~ Permission THEN FALSE
    ELSE IF MUTATED \/ orbitFile \notin disk THEN TRUE
    ELSE FALSE

----------------------------------------------------------------------------
(* Athena.__init__, lines 296-324: the save file *)

\* lines 298-299 with "_1.dat" in place of ".dat"
DefaultExistentialFileVersioned(tesselationFile) ==
    JoinButLast(SYNEX_PATH \o << "/" >> \o Saved_Telescope_Dicts
                \o SplitLast(tesselationFile, gwemopt_tess_files),
                << "." >>) \o << "_", "1", ".", "dat" >>

\* lines 298-299
DefaultExistentialFile(tesselationFile) ==
    JoinButLast(SYNEX_PATH \o << "/" >> \o Saved_Telescope_Dicts
                \o SplitLast(tesselationFile, gwemopt_tess_files),
                << "." >>) \o << ".", "dat" >>

\* lines 305-322 without the versioning of lines 309-322
MutatedExistentialFileInPlace(kwargs, ExistentialFileName, disk) ==
    IF "NewExistentialFileName" \in KeysOf(kwargs)
    THEN Get(kwargs, "NewExistentialFileName")
    ELSE ExistentialFileName

\* lines 305-322, under "if MUTATED"
MutatedExistentialFile(kwargs, ExistentialFileName, disk) ==
    IF "NewExistentialFileName" \in KeysOf(kwargs)
    THEN Get(kwargs, "NewExistentialFileName")
    ELSE NextVersion(ExistentialFileName, disk)

----------------------------------------------------------------------------
(* Collaborators of Athena.__init__ that live in other modules of SYNEX *)

\* SYU.GWEMOPTPathChecks, line 261: the two file names made coherent with SYNEX_PATH
GWEMOPTPathChecks(telescope_config_struct) ==
    [ telescope_config_struct EXCEPT
        !["tesselationFile"] = AdaptToArchitecture(@),
        !["orbitFile"]       = AdaptToArchitecture(@) ]

\* segs_a.get_telescope_orbit, line 275: the orbit is computed into orbit_dict ...
get_telescope_orbit(telescope_config_struct) ==
    Put(telescope_config_struct, "orbit_dict", << "orbit" >>)

\* ... and written to orbitFile when SAVETOFILE
OrbitWrites(telescope_config_struct, SaveToFile) ==
    IF SaveToFile THEN { telescope_config_struct["orbitFile"] } ELSE {}

----------------------------------------------------------------------------
(* Athena.ComputeTesselation, lines 342-379 (doSingleExposure is False in  *)
(* every modelled dictionary, referenceFile is in none)                    *)

\* lines 354-357: gwemopt writes the tesselation file when WriteToFile
TesselationWrites(telescope_config_struct, WriteToFile) ==
    IF "tesselationFile" \in DOMAIN telescope_config_struct /\ WriteToFile
    THEN { telescope_config_struct["tesselationFile"] }
    ELSE {}

\* lines 358-362
ComputeTesselation(telescope_go_params, telescope_config_struct) ==
    IF "tesselationFile" \in DOMAIN telescope_config_struct
    THEN Put(telescope_config_struct, "tesselation",
             IF telescope_go_params["tilesType"] = << "galaxy" >>
             THEN << "empty" >> ELSE << "ras", "decs" >>)
    ELSE telescope_config_struct

----------------------------------------------------------------------------
(* Athena.ExistentialCrisis, lines 553-578.  An instrument is the record   *)
(* of its attributes; attrs names the attributes that are set.             *)

NoInstance ==
    [ attrs                     |-> {},
      PermissionToWrite         |-> FALSE,
      ExistentialFileName       |-> None,
      MutatedFromTelescopeFile  |-> None,
      telescope_go_params       |-> << >>,
      telescope_config_struct   |-> << >>,
      telescope_source_coverage |-> NoCoverage,
      telescope_tile_struct     |-> None ]

\* a bug: the tile structure is deleted from the copy together with the tesselation
MyExistentialDictWithoutTiles(inst) ==
    [ inst EXCEPT !.telescope_config_struct = Remove(Remove(@, "orbit_dict"), "tesselation"),
                  !.attrs = @ \ { "telescope_tile_struct" } ]

\* lines 571-574 without the del of line 573
MyExistentialDictKeepingOrbit(inst) ==
    [ inst EXCEPT !.telescope_config_struct = Remove(@, "tesselation") ]

\* lines 571-574: the deep copy without orbit_dict and tesselation
MyExistentialDict(inst) ==
    [ inst EXCEPT !.telescope_config_struct = Remove(Remove(@, "orbit_dict"), "tesselation") ]

\* lines 577-578: the file is opened for writing whatever PermissionToWrite is
SaveWrites(inst) == { inst.ExistentialFileName }

\* pickles after the save
Pickled(inst, pk) ==
    IF SaveWrites(inst) = {} THEN pk
    ELSE Put(pk, inst.ExistentialFileName, MyExistentialDict(inst))

----------------------------------------------------------------------------
(* Athena.__init__, lines 57-340, as one function of its arguments and of  *)
(* what it reads: the communicator size, the disk, the pickled save files  *)
(* and the module-level default dictionaries of the calling process.       *)
(* The function is the composition of the constructor's sections; each     *)
(* takes the record of the locals set so far and adds the locals it sets.  *)

\* line 66 (verbose is popped) and lines 89-94
ReadArguments(kwargs0, size, disk, pk, go_default, config_default) ==
    [ kwargs0 |-> kwargs0, size |-> size, disk |-> disk, pk |-> pk,
      go_default |-> go_default, config_default |-> config_default,
      kwargs1 |-> CheckNewExistentialPath(Del(kwargs0, "verbose")) ]

\* lines 97-104: self.ExistentialFileName, and the key leaves kwargs
ReadExistentialFileName(L) ==
    L @@ [ resurrect |-> "ExistentialFileName" \in KeysOf(L.kwargs1),
           GivenName |-> IF "ExistentialFileName" \in KeysOf(L.kwargs1)
                         THEN IF MkdirFails(DirOf(Get(L.kwargs1, "ExistentialFileName")))
                              THEN ToSynexPath(Get(L.kwargs1, "ExistentialFileName"))
                              ELSE Get(L.kwargs1, "ExistentialFileName")
                         ELSE None,
           kwargs    |-> Del(L.kwargs1, "ExistentialFileName") ]

\* line 105
FindSaveFile(L) == L @@ [ loaded |-> L.resurrect /\ L.GivenName \in L.disk ]

\* lines 111-112
LoadSavedDict(L) ==
    L @@ [ SavedDict |-> IF L.loaded THEN L.pk[L.GivenName] ELSE NoInstance ]

\* lines 115-146, and lines 172-179 when nothing was loaded
ReadSavedDict(L) ==
    L @@ [ go0      |-> IF L.loaded THEN L.SavedDict.telescope_go_params ELSE L.go_default,
           config0  |-> IF L.loaded THEN L.SavedDict.telescope_config_struct
                        ELSE L.config_default,
           coverage |-> IF L.loaded THEN LoadCoverage(L.SavedDict, L.GivenName, L.disk)
                        ELSE NoCoverage,
           tile     |-> IF L.loaded THEN LoadTileStruct(L.SavedDict) ELSE None ]

\* lines 148-159
DecideMutation(L) ==
    L @@ [ MUTATED |-> L.loaded /\ Mutation(L.kwargs, L.go0, L.config0) ]

\* lines 161-171, run only when a save file was loaded
BackFillDefaults(L) ==
    L @@ [ goB     |-> IF L.loaded THEN BackFill(L.kwargs, L.go0, L.go_default)
                       ELSE L.go0,
           configB |-> IF L.loaded THEN BackFill(L.kwargs, L.config0, L.config_default)
                       ELSE L.config0 ]

\* lines 181-192
MergeOverlay(L) ==
    L @@ [ merged |-> Merge(L.kwargs, [ go |-> L.goB, config |-> L.configB,
                                        print_reminder |-> FALSE, unknown |-> {} ]) ]

\* lines 194-200
NameTesselationFile(L) ==
    L @@ [ tess0 |-> DefaultTesselationFile(L.kwargs, L.merged.config) ]

\* lines 202-225
VersionTesselationFile(L) ==
    L @@ [ tess1 |-> TesselationFile(L.MUTATED, L.kwargs, L.tess0, L.disk) ]

\* lines 227-236
NameOrbitFile(L) ==
    L @@ [ orbit0 |-> DefaultOrbitFile(L.merged.config) ]

\* lines 237-258
VersionOrbitFile(L) ==
    L @@ [ orbit1 |-> OrbitFile(L.MUTATED, L.kwargs, L.orbit0, L.disk) ]

\* line 261
CheckPaths(L) ==
    L @@ [ config4 |-> GWEMOPTPathChecks(Put(Put(L.merged.config,
                                                 "tesselationFile", L.tess1),
                                             "orbitFile", L.orbit1)) ]

\* lines 263-271
DecideOrbitSave(L) ==
    L @@ [ Permission |-> PermissionOf(L.size),
           SaveOrbit  |-> SAVETOFILE(PermissionOf(L.size), L.MUTATED,
                                     L.config4["orbitFile"], L.disk) ]

\* lines 272-275
ComputeOrbit(L) ==
    L @@ [ config5 |-> get_telescope_orbit(L.config4),
           disk1   |-> L.disk \cup OrbitWrites(L.config4, L.SaveOrbit) ]

\* a bug: a name under which no file was found is forgotten
NameSaveFileForgetful(L) ==
    L @@ [ save0 |-> IF L.loaded THEN L.GivenName
                     ELSE DefaultExistentialFile(L.config5["tesselationFile"]) ]

\* lines 296-300
NameSaveFile(L) ==
    L @@ [ save0 |-> IF L.resurrect THEN L.GivenName
                     ELSE DefaultExistentialFile(L.config5["tesselationFile"]) ]

\* lines 302-324
VersionSaveFile(L) ==
    L @@ [ save1 |-> IF L.MUTATED
                     THEN MutatedExistentialFile(L.kwargs, L.save0, L.disk1)
                     ELSE L.save0 ]

\* line 333, ComputeTesselation up to its save
Tesselate(L) ==
    L @@ [ config6 |-> ComputeTesselation(L.merged.go, L.config5),
           disk2   |-> L.disk1 \cup TesselationWrites(L.config5, L.Permission) ]

\* a bug: the coverage of the old parameters survives the mutation
CoverageKept(MUTATED, coverage) == coverage

\* lines 280-284
CoverageAttribute(MUTATED, coverage) == IF MUTATED THEN NoCoverage ELSE coverage

\* lines 285-294
TileStructAttribute(MUTATED, tile) == IF MUTATED THEN None ELSE tile

\* lines 277-294 and 302-304: the attributes of self when ExistentialCrisis runs
SetAttributes(L) ==
    L @@ [ atSave |->
             [ attrs |-> { "verbose", "PermissionToWrite", "ExistentialFileName",
                           "telescope_go_params", "telescope_config_struct",
                           "telescope_source_coverage", "telescope_tile_struct" }
                         \cup (IF L.loaded \/ L.MUTATED
                               THEN { "MutatedFromTelescopeFile" } ELSE {}),
               PermissionToWrite         |-> L.Permission,
               ExistentialFileName       |-> L.save1,
               MutatedFromTelescopeFile  |-> IF L.MUTATED THEN L.save0
                                             ELSE IF L.loaded
                                             THEN LoadMutatedFrom(L.SavedDict)
                                             ELSE None,
               telescope_go_params       |-> L.merged.go,
               telescope_config_struct   |-> L.config6,
               telescope_source_coverage |-> CoverageAttribute(L.MUTATED, L.coverage),
               telescope_tile_struct     |-> TileStructAttribute(L.MUTATED, L.tile) ] ]

\* line 379 (the save) and line 336; the result of the call
Finish(L) ==
    [ self           |-> [ L.atSave EXCEPT !.attrs = @ \cup { "ARF_file_loc_name" } ],
      files          |-> L.disk2 \cup SaveWrites(L.atSave),
      pickles        |-> Pickled(L.atSave, L.pk),
      \* lines 172-179: without a loaded file the two dictionaries ARE the module
      \* dictionaries, which every later assignment therefore changes
      go_default     |-> IF L.loaded THEN L.go_default ELSE L.merged.go,
      config_default |-> IF L.loaded THEN L.config_default ELSE L.config6,
      call |-> [ kwargs         |-> L.kwargs0,
                 overlay        |-> L.kwargs,
                 resurrect      |-> L.resurrect,
                 loaded         |-> L.loaded,
                 SavedDict      |-> L.SavedDict,
                 coverage       |-> L.coverage,
                 tile           |-> L.tile,
                 MUTATED        |-> L.MUTATED,
                 go0            |-> L.go0,
                 config0        |-> L.config0,
                 goB            |-> L.goB,
                 configB        |-> L.configB,
                 go1            |-> L.merged.go,
                 config1        |-> L.merged.config,
                 print_reminder |-> L.merged.print_reminder,
                 unknown        |-> L.merged.unknown,
                 tess0          |-> L.tess0,
                 tess1          |-> L.tess1,
                 orbit0         |-> L.orbit0,
                 orbit1         |-> L.orbit1,
                 save0          |-> L.save0,
                 save1          |-> L.save1,
                 SAVETOFILE     |-> L.SaveOrbit,
                 WriteToFile    |-> L.Permission,
                 diskBefore     |-> L.disk,
                 diskAtSave     |-> L.disk1,
                 written        |-> OrbitWrites(L.config4, L.SaveOrbit)
                                    \cup TesselationWrites(L.config5, L.Permission)
                                    \cup SaveWrites(L.atSave) ] ]

AthenaInit(kwargs0, size, disk, pk, go_default, config_default) ==
    Finish(SetAttributes(Tesselate(VersionSaveFile(NameSaveFile(ComputeOrbit(
    DecideOrbitSave(CheckPaths(VersionOrbitFile(NameOrbitFile(VersionTesselationFile(
    NameTesselationFile(MergeOverlay(BackFillDefaults(DecideMutation(ReadSavedDict(LoadSavedDict(
    FindSaveFile(ReadExistentialFileName(
    ReadArguments(kwargs0, size, disk, pk, go_default, config_default)
    )))))))))))))))))))

----------------------------------------------------------------------------
(* The files and the arguments of the modelled runs *)

SaveDir  == SYNEX_PATH \o << "/" >> \o Saved_Telescope_Dicts \o << "/" >>
TessDir  == SYNEX_PATH \o << "/" >> \o gwemopt_tess_files \o << "/" >>
OrbitDir == SYNEX_PATH \o << "/" >> \o orbit_files \o << "/" >>

AthenaDat   == SaveDir \o << "Athena", ".", "dat" >>
Athena1Dat  == SaveDir \o << "Athena", "_", "1", ".", "dat" >>
HeraDat     == SaveDir \o << "Hera", ".", "dat" >>
OldDat      == SaveDir \o << "Old", ".", "dat" >>
ClusterHera == << "/", "cluster", "/", "SYNEX", "/" >> \o Saved_Telescope_Dicts
               \o << "/", "Hera", ".", "dat" >>
HeraTess    == TessDir \o << "Hera", ".", "tess" >>
HeraOrbit   == OrbitDir \o << "Hera", ".", "dat" >>

Tobs0 == << "0", "1" >>
Tobs1 == << "0", "1", "2" >>

\* the **kwargs of the modelled constructor calls
Calls ==
    { << >>,
      << << "NewExistentialFileName", HeraDat >> >>,
      << << "NewtesselationFile", HeraTess >>, << "FOV_type", << "square" >> >> >>,
      << << "ExistentialFileName", AthenaDat >> >>,
      << << "ExistentialFileName", AthenaDat >>, << "verbose", << "False" >> >>,
         << "FOV_type", << "square" >> >> >>,
      << << "extra", << "1" >> >>, << "ExistentialFileName", AthenaDat >> >>,
      << << "ExistentialFileName", AthenaDat >>, << "Tobs", Tobs0 >>,
         << "FOV_type", << "square" >> >> >>,
      << << "ExistentialFileName", AthenaDat >>, << "Tobs", Tobs0 >>,
         << "FOV_type", << "circle" >> >> >>,
      << << "ExistentialFileName", AthenaDat >>, << "Tobs", Tobs1 >>,
         << "FOV_type", << "circle" >> >> >>,
      << << "ExistentialFileName", AthenaDat >>,
         << "NewExistentialFileName", ClusterHera >> >>,
      << << "ExistentialFileName", AthenaDat >>, << "NewtesselationFile", HeraTess >>,
         << "NeworbitFile", HeraOrbit >> >>,
      << << "ExistentialFileName", Athena1Dat >>, << "FOV_type", << "circle" >> >>,
         << "extra", << "1" >> >> >>,
      << << "ExistentialFileName", AthenaDat >>, << "NewExistentialFileName", HeraDat >>,
         << "NewtesselationFile", HeraTess >>, << "NeworbitFile", HeraOrbit >> >>,
      << << "ExistentialFileName", OldDat >> >>,
      << << "ExistentialFileName", OldDat >>, << "Ntiles", << "9" >> >>,
         << "inc", << "6", "0" >> >> >> }

\* the NewFileName of the modelled explicit saves
NewFileNames == { None, Athena1Dat }

\* what the tiling stage of the pipeline stores in a constructed instrument before
\* it saves it (class docstring, lines 46: "Automatic save points ...")
Tiled(inst) ==
    [ inst EXCEPT
        !.telescope_source_coverage =
            [ isNone   |-> FALSE,
              JsonFile |-> SYNEX_PATH \o << "/", "inference", "_", "param", "_", "files",
                                            "/", "source", ".", "json" >>,
              H5File   |-> None,
              SaveFile |-> None ],
        !.telescope_tile_struct = << "tiles" >> ]

\* The disk left by n earlier runs of the program, each a process of its own without
\* MPI: none; Athena() followed by the tiling stage and its save, and
\* Athena(ExistentialFileName=<Old.dat>) run by the version of the program whose
\* go_params_default had no Ntiles (class docstring, lines 60-63); then n-1 times
\* Athena(ExistentialFileName=<Athena.dat>, FOV_type="square", Tobs=<as saved>).
TilingRun(r) == [ files |-> r.files, pickles |-> Pickled(Tiled(r.self), r.pickles) ]

OlderRun(d) ==
    AthenaInit(<< << "ExistentialFileName", OldDat >> >>, 0, d.files, d.pickles,
               Remove(go_params_default0, "Ntiles"), config_struct_default0)

MutatingRun(d) ==
    AthenaInit(<< << "ExistentialFileName", AthenaDat >>,
                  << "FOV_type", << "square" >> >>, << "Tobs", Tobs0 >> >>,
               0, d.files, d.pickles, go_params_default0, config_struct_default0)

RECURSIVE PriorDisk(_)
PriorDisk(n) ==
    IF n = 0 THEN [ files |-> {}, pickles |-> << >> ]
    ELSE IF n = 1
    THEN OlderRun(TilingRun(AthenaInit(<< >>, 0, {}, << >>,
                                       go_params_default0, config_struct_default0)))
    ELSE MutatingRun(PriorDisk(n - 1))

\* the ranks of the communicator; one process when there is no MPI
Ranks(size) == 0..(IF size = 0 THEN 0 ELSE size - 1)

NoCall ==
    [ kwargs |-> << >>, overlay |-> << >>, resurrect |-> FALSE, loaded |-> FALSE,
      SavedDict |-> NoInstance, coverage |-> NoCoverage, tile |-> None,
      MUTATED |-> FALSE, go0 |-> << >>, config0 |-> << >>, goB |-> << >>,
      configB |-> << >>, go1 |-> << >>, config1 |-> << >>,
      print_reminder |-> FALSE, unknown |-> {},
      tess0 |-> None, tess1 |-> None, orbit0 |-> None, orbit1 |-> None,
      save0 |-> None, save1 |-> None, SAVETOFILE |-> FALSE, WriteToFile |-> FALSE,
      diskBefore |-> {}, diskAtSave |-> {}, written |-> {} ]

----------------------------------------------------------------------------
(* Athena.GetKuiper, lines 381-551.  Times are whole seconds to merger      *)
(* (negative before it); a p-value is a number of PScale-ths.  The run is   *)
(* the record of its inputs, its locals and the attributes it sets on self. *)

\* source.xray_time: one sample per second from -Horizon to the merger
Horizon == 6
xray_time == [ i \in 1..(Horizon + 1) |-> i - 1 - Horizon ]

\* self.T_lat, the time spent on one tile, when the caller has set it
Latency == 2

\* tiles in the tile file
MaxTiles == 3

\* photons of the stream arrive up to this many seconds after the first window opens
MaxPhotonOffset == 3

\* p-values are 0, 1/PScale, .., 1
PScale == 2
PVals == 0..PScale

\* a local that no statement has assigned yet
Unbound == -1

\* line 528: the exponent per exposure
TrialsPerExposure == 518400

\* lines 400-404
TimeToMergerOf(T_s, DeltatL_cut) == IF T_s > DeltatL_cut THEN T_s ELSE DeltatL_cut

\* line 407: int(-TimeToMerger//self.T_lat)
n_timesOf(TimeToMerger, T_lat) == (0 - TimeToMerger) \div T_lat

\* line 413: the tiles with int(k)<n_times, in the order of the dictionary
IsBelow(tile, n_times) == tile.ID < n_times
TileDict_reduced(TileDict, n_times) ==
    SelectSeq(TileDict, LAMBDA tile : IsBelow(tile, n_times))

\* lines 417-420: max() of the kept keys, which raises ValueError on an empty list
max_key(reduced) == MaxOf({ reduced[i].ID : i \in 1..Len(reduced) })

\* line 430
xray_time_merger(TimeToMerger) == SelectSeq(xray_time, LAMBDA time : time >= TimeToMerger)

\* lines 442-443, 462-464: the arrival times of the stream, drawn from
\* xray_time_merger; offsets says how long after its first sample each one arrives
t_is_mergerOf(TimeToMerger, offsets) ==
    [ i \in 1..Len(offsets) |-> xray_time_merger(TimeToMerger)[1] + offsets[i] ]

\* line 506: the photons of the tile, t_i_merger>ts and t_i_merger<te
InTileWindow(time, ts, te) == time > ts /\ time < te
t_isOf(t_is_merger, ts, te) ==
    SelectSeq(t_is_merger, LAMBDA time : InTileWindow(time, ts, te))

\* the product of two numbers of PScale-ths, rounded down to a number of PScale-ths
Times(x, y) == (x * y) \div PScale
Squares == [ h \in 0..PScale |-> Times(h, h) ]

\* line 528: x**n by repeated squaring, each product rounded
RECURSIVE Power(_, _)
Power(x, n) ==
    IF n = 0 THEN PScale
    ELSE IF n % 2 = 0 THEN Squares[Power(x, n \div 2)]
    ELSE Times(x, Power(x, n - 1))

\* lines 527-532 with the first-order expansion n*p in place of 1.-(1.-p)**n
DetectionPValLinear(p, n_exposures) ==
    IF n_exposures > 0
    THEN p * (n_exposures * TrialsPerExposure)
    ELSE p

\* lines 527-532: 1.-(1.-p)**(n_exposures*518400); line 531 is 1.-(1.-p)
DetectionPVal(p, n_exposures) ==
    IF n_exposures > 0
    THEN PScale - Power(PScale - p, n_exposures * TrialsPerExposure)
    ELSE PScale - (PScale - p)

\* before GetKuiper is called; names holds what the caller has bound of the two
\* names that GetKuiper reads and that nothing in the class binds: the module
\* global LISAPosteriorDataFile and the attribute self.T_lat
NoKuiper ==
    [ pc |-> "idle", error |-> "None", names |-> {},
      TileDict |-> << >>, t_is_merger |-> << >>, TimeToMerger |-> 0, n_times |-> 0,
      n_times0 |-> 0, reduced |-> << >>, consumed |-> 0, ts |-> 0, te |-> 0,
      n_photons |-> 0, exposure_photons |-> 0, exposure_t_is |-> << >>,
      tile_p_val |-> PScale, exposure_p_val |-> PScale, exposure_kuiper |-> 0,
      detection_p_val |-> Unbound, tile_detection_p_val |-> Unbound,
      n_exposures |-> 0, n_photons_list |-> << >>, exposure_tiles |-> << >>,
      tile_kuiper_p_val_trace |-> << >>, tile_detection_p_val_trace |-> << >>,
      exposure_kuiper_trace |-> << >>, exposure_kuiper_p_val_trace |-> << >>,
      detection_kuiper_p_val_trace |-> << >>, accum_exposure_photons_trace |-> << >>,
      exposure_photons_trace |-> << >> ]

\* an exception leaves GetKuiper
Raised(K, exception) == [ K EXCEPT !.pc = "raised", !.error = exception ]

\* lines 400-407, with self.T_lat set
TimeTheTiles(K, DeltatL_cut) ==
    [ K EXCEPT !.TimeToMerger = TimeToMergerOf(xray_time[1], DeltatL_cut),
               !.n_times0 = n_timesOf(TimeToMergerOf(xray_time[1], DeltatL_cut), Latency),
               !.n_times = n_timesOf(TimeToMergerOf(xray_time[1], DeltatL_cut), Latency) ]

\* lines 410-422, for a tile file of strategy "MaxProb"
SelectTiles(K) ==
    IF TileDict_reduced(K.TileDict, K.n_times) = << >>
    THEN Raised(K, "ValueError")
    ELSE [ K EXCEPT !.reduced = TileDict_reduced(K.TileDict, K.n_times),
                    !.n_times = IF max_key(TileDict_reduced(K.TileDict, K.n_times)) < @
                                THEN max_key(TileDict_reduced(K.TileDict, K.n_times))
                                ELSE @ ]

\* lines 430-499: the photon stream, the first window and the empty traces
EnterLoop(K, offsets) ==
    IF K.pc = "raised" THEN K
    ELSE [ K EXCEPT !.pc = "loop",
                    !.t_is_merger = t_is_mergerOf(K.TimeToMerger, offsets),
                    !.ts = xray_time_merger(K.TimeToMerger)[1],
                    !.te = xray_time_merger(K.TimeToMerger)[1] + Latency ]

\* lines 392-499: GetKuiper up to its loop
StartKuiper(K, TileDict, DeltatL_cut, offsets) ==
    IF "LISAPosteriorDataFile" \notin K.names
    THEN Raised([ K EXCEPT !.TileDict = TileDict ], "NameError")
    ELSE IF "T_lat" \notin K.names
    THEN Raised([ K EXCEPT !.TileDict = TileDict ], "AttributeError")
    ELSE EnterLoop(SelectTiles(TimeTheTiles([ K EXCEPT !.TileDict = TileDict ],
                                            DeltatL_cut)),
                   offsets)

\* lines 504-532 with exposure_photons = n_photons in place of += at line 517
ExposedNotAccumulating(K, tile, tile_p, exposure_p) ==
    [ K EXCEPT !.n_photons = Len(t_isOf(K.t_is_merger, K.ts, K.te)),
               !.n_photons_list = Append(@, Len(t_isOf(K.t_is_merger, K.ts, K.te))),
               !.tile_p_val = tile_p,
               !.n_exposures = @ + 1,
               !.exposure_tiles = Append(@, tile.ID),
               !.exposure_photons = Len(t_isOf(K.t_is_merger, K.ts, K.te)),
               !.exposure_t_is = @ \o t_isOf(K.t_is_merger, K.ts, K.te),
               !.exposure_kuiper = PScale - exposure_p,
               !.exposure_p_val = exposure_p,
               !.detection_p_val = DetectionPVal(exposure_p, K.n_exposures + 1),
               !.tile_detection_p_val = DetectionPVal(tile_p, K.n_exposures + 1) ]

\* lines 504-530: the tile contains the source; tile_p and exposure_p are what the
\* Kuiper test returns for the photons of the tile and for those gathered so far, and
\* the statistic is kept as the complement of the p-value
Exposed(K, tile, tile_p, exposure_p) ==
    [ K EXCEPT !.n_photons = Len(t_isOf(K.t_is_merger, K.ts, K.te)),
               !.n_photons_list = Append(@, Len(t_isOf(K.t_is_merger, K.ts, K.te))),
               !.tile_p_val = tile_p,
               !.n_exposures = @ + 1,
               !.exposure_tiles = Append(@, tile.ID),
               !.exposure_photons = @ + Len(t_isOf(K.t_is_merger, K.ts, K.te)),
               !.exposure_t_is = @ \o t_isOf(K.t_is_merger, K.ts, K.te),
               !.exposure_kuiper = PScale - exposure_p,
               !.exposure_p_val = exposure_p,
               !.detection_p_val = DetectionPVal(exposure_p, K.n_exposures + 1),
               !.tile_detection_p_val = DetectionPVal(tile_p, K.n_exposures + 1) ]

\* lines 535-546: the traces and the next window.  Reading tile_detection_p_val
\* before any tile has assigned it raises UnboundLocalError at line 537.
Traced(K) ==
    IF K.tile_detection_p_val = Unbound
    THEN Raised([ K EXCEPT !.tile_kuiper_p_val_trace = Append(@, K.tile_p_val) ],
                "UnboundLocalError")
    ELSE [ K EXCEPT
             !.tile_kuiper_p_val_trace = Append(@, K.tile_p_val),
             !.tile_detection_p_val_trace = Append(@, K.tile_detection_p_val),
             !.exposure_kuiper_trace = Append(@, K.exposure_kuiper),
             !.exposure_kuiper_p_val_trace = Append(@, K.exposure_p_val),
             !.detection_kuiper_p_val_trace = Append(@, K.detection_p_val),
             !.accum_exposure_photons_trace = Append(@, K.exposure_photons),
             !.exposure_photons_trace = Append(@, K.n_photons),
             !.ts = K.te,
             !.te = K.te + Latency,
             !.consumed = @ + 1,
             !.pc = IF K.consumed + 1 = Len(K.reduced) THEN "done" ELSE "loop" ]

\* lines 500-546: one iteration of "for tile in TileDict_reduced"
NextTile(K, tile_p, exposure_p) ==
    IF K.reduced[K.consumed + 1].inTile
    THEN Traced(Exposed(K, K.reduced[K.consumed + 1], tile_p, exposure_p))
    ELSE Traced(K)

----------------------------------------------------------------------------
(* The state machine *)

StartFrom(d) == files = d.files /\ pickles = d.pickles

Init ==
    /\ MPI_size \in 0..MaxProcs
    /\ \E n \in 0..MaxPrior : StartFrom(PriorDisk(n))
    /\ go_params_default = [ p \in Ranks(MPI_size) |-> go_params_default0 ]
    /\ config_struct_default = [ p \in Ranks(MPI_size) |-> config_struct_default0 ]
    /\ PermissionToWrite = << >>
    /\ self = NoInstance
    /\ call = NoCall
    /\ written = {}
    /\ ncalls = 0
    /\ nsaves = 0
    /\ kuiper = NoKuiper

\* Athena(**kwargs) in the next process of the communicator.  The constructor reads
\* no rank, so the processes are alike and construct in rank order, one instrument each.
Constructed(p, r) ==
    /\ self' = r.self
    /\ files' = r.files
    /\ pickles' = r.pickles
    /\ go_params_default' = [ go_params_default EXCEPT ![p] = r.go_default ]
    /\ config_struct_default' = [ config_struct_default EXCEPT ![p] = r.config_default ]
    /\ PermissionToWrite' = Put(PermissionToWrite, p, r.self.PermissionToWrite)
    /\ call' = r.call
    /\ written' = r.call.written

Athena(kwargs) ==
    /\ ncalls \in Ranks(MPI_size)
    /\ Constructed(ncalls, AthenaInit(kwargs, MPI_size, files, pickles,
                                      go_params_default[ncalls],
                                      config_struct_default[ncalls]))
    /\ ncalls' = ncalls + 1
    /\ UNCHANGED << MPI_size, nsaves, kuiper >>

\* self.ExistentialCrisis(NewFileName) on the instrument constructed last
ExistentialCrisis(NewFileName) ==
    /\ self # NoInstance
    /\ nsaves < MaxSaves
    /\ self' = IF NewFileName # None
               THEN [ self EXCEPT !.ExistentialFileName = NewFileName ]
               ELSE self
    /\ files' = files \cup SaveWrites(self')
    /\ pickles' = Pickled(self', pickles)
    /\ written' = SaveWrites(self')
    /\ nsaves' = nsaves + 1
    /\ UNCHANGED << MPI_size, go_params_default, config_struct_default,
                    PermissionToWrite, call, ncalls, kuiper >>

Next ==
    \/ \E kwargs \in Calls : Athena(kwargs)
    \/ \E NewFileName \in NewFileNames : ExistentialCrisis(NewFileName)

Spec == Init /\ [][Next]_vars

----------------------------------------------------------------------------
(* One process without MPI that constructs several instruments, one after  *)
(* the other.  The module dictionaries of SYNEX.gwemopt_defaults live as   *)
(* long as the process, so each construction starts from what the earlier  *)
(* ones left in them.                                                       *)

InitProcess == Init /\ MPI_size = 0

\* Athena(**kwargs) once more in process 0
AthenaAgain(kwargs) ==
    /\ ncalls < MaxCalls
    /\ Constructed(0, AthenaInit(kwargs, MPI_size, files, pickles,
                                 go_params_default[0], config_struct_default[0]))
    /\ ncalls' = ncalls + 1
    /\ UNCHANGED << MPI_size, nsaves, kuiper >>

\* the calls of the process: those of Calls, and a resurrection that names the
\* snapshot it loads as its new save file
ProcessCalls ==
    Calls \cup { << << "ExistentialFileName", AthenaDat >>,
                    << "NewExistentialFileName", AthenaDat >> >> }

NextProcess == \E kwargs \in ProcessCalls : AthenaAgain(kwargs)

SpecProcess == InitProcess /\ [][NextProcess]_vars

----------------------------------------------------------------------------
(* GetKuiper on a freshly constructed instrument.  The constructor has run *)
(* once, without MPI and on an empty disk, and nothing constructs or saves *)
(* afterwards, so only the run of GetKuiper changes.                        *)

\* the tile files: tiles keyed first, first+1, .. in the order of the file, each
\* with a sky range that holds the source or not (line 502)
TileDictOf(first, holds) ==
    [ i \in 1..Len(holds) |-> [ ID |-> first + i - 1, inTile |-> holds[i] ] ]
TileDicts ==
    { TileDictOf(first, holds) :
        first \in 0..1, holds \in UNION { [ 1..n -> BOOLEAN ] : n \in 0..MaxTiles } }

\* input_params["waveform_params"]["DeltatL_cut"]: before the first sample of the
\* source, two tiles before the merger, and less than one tile before it
DeltatL_cuts == { 0 - Horizon - 1, 0 - 2 * Latency, 0 - 1 }

\* a set of whole numbers as the sorted list (line 443)
RECURSIVE Sorted(_)
Sorted(S) ==
    IF S = {} THEN << >>
    ELSE LET least == CHOOSE x \in S : \A y \in S : x <= y
         IN  << least >> \o Sorted(S \ { least })

\* the photon streams: at most one photon per second of the first seconds
PhotonOffsets == { Sorted(S) : S \in SUBSET (0..MaxPhotonOffset) }

\* the state after Athena() in a single process on an empty disk
Fresh ==
    AthenaInit(<< >>, 0, PriorDisk(0).files, PriorDisk(0).pickles,
               go_params_default0, config_struct_default0)

InitKuiper ==
    /\ MPI_size = 0
    /\ files = Fresh.files
    /\ pickles = Fresh.pickles
    /\ go_params_default = [ p \in Ranks(0) |-> Fresh.go_default ]
    /\ config_struct_default = [ p \in Ranks(0) |-> Fresh.config_default ]
    /\ PermissionToWrite = Put(<< >>, 0, Fresh.self.PermissionToWrite)
    /\ self = Fresh.self
    /\ call = Fresh.call
    /\ written = Fresh.call.written
    /\ ncalls = 1
    /\ nsaves = 0
    /\ \E names \in SUBSET { "LISAPosteriorDataFile", "T_lat" } :
          kuiper = [ NoKuiper EXCEPT !.names = names ]

\* self.GetKuiper(TilePickleFile, source) up to the loop over the tiles
GetKuiper(TileDict, DeltatL_cut, offsets) ==
    /\ self # NoInstance
    /\ kuiper.pc = "idle"
    /\ \A i \in 1..Len(offsets) :
          TimeToMergerOf(xray_time[1], DeltatL_cut) + offsets[i] <= 0
    /\ kuiper' = StartKuiper(kuiper, TileDict, DeltatL_cut, offsets)
    /\ UNCHANGED << MPI_size, files, pickles, go_params_default, config_struct_default,
                    PermissionToWrite, self, call, written, ncalls, nsaves >>

\* one iteration of the loop over the tiles.  The first exposure tests the photons
\* of its tile twice, so both tests return the same p-value.
KuiperTile(tile_p, exposure_p) ==
    /\ kuiper.pc = "loop"
    /\ kuiper.n_exposures = 0 => exposure_p = tile_p
    /\ ~ kuiper.reduced[kuiper.consumed + 1].inTile =>
          tile_p = PScale /\ exposure_p = PScale
    /\ kuiper' = NextTile(kuiper, tile_p, exposure_p)
    /\ UNCHANGED << MPI_size, files, pickles, go_params_default, config_struct_default,
                    PermissionToWrite, self, call, written, ncalls, nsaves >>

NextKuiper ==
    \/ \E TileDict \in TileDicts, DeltatL_cut \in DeltatL_cuts, offsets \in PhotonOffsets :
          GetKuiper(TileDict, DeltatL_cut, offsets)
    \/ \E tile_p \in PVals, exposure_p \in PVals : KuiperTile(tile_p, exposure_p)

SpecKuiper == InitKuiper /\ [][NextKuiper]_vars

----------------------------------------------------------------------------
(* Properties.  They are stated on the record call that the constructor    *)
(* leaves behind (its arguments, what it loaded and what it decided), on    *)
(* the instrument self and on the set written of files the last operation  *)
(* opened for writing.                                                      *)

\* the saved dictionaries the overlay is compared with (lines 115-116)
SavedGo == call.SavedDict.telescope_go_params
SavedConfig == call.SavedDict.telescope_config_struct

\* position i of the overlay names a key of a saved dictionary, other than Tobs,
\* with a value that differs from the saved one
DiffersAt(i) ==
    /\ call.overlay[i][1] # "Tobs"
    /\ \/ /\ call.overlay[i][1] \in DOMAIN SavedGo
          /\ call.overlay[i][2] # SavedGo[call.overlay[i][1]]
       \/ /\ call.overlay[i][1] \in DOMAIN SavedConfig
          /\ call.overlay[i][2] # SavedConfig[call.overlay[i][1]]

\* position i of the overlay names a key that neither saved dictionary has
UnknownAt(i) ==
    /\ call.overlay[i][1] \notin DOMAIN SavedGo
    /\ call.overlay[i][1] \notin DOMAIN SavedConfig

\* C1: when the constructor loads a snapshot and the overlay has at least one key,
\* MUTATED is true whenever some overlay key other than Tobs is a key of the saved
\* go_params or config_struct with a value different from the saved one.
C1_MutatedWhenValueDiffers ==
    (call.loaded /\ Len(call.overlay) >= 1
        /\ \E i \in 1..Len(call.overlay) : DiffersAt(i))
    => call.MUTATED

\* C2: a process whose PermissionToWrite is false opens no file for writing, neither
\* in the constructor nor in a later save; it still holds the orbit and the
\* tesselation in memory.
C2_NoWriteWithoutPermission ==
    (self # NoInstance /\ ~self.PermissionToWrite)
    => /\ written = {}
       /\ { "orbit_dict", "tesselation" } \subseteq DOMAIN self.telescope_config_struct

\* every process of the communicator has constructed its instrument
AllConstructed == DOMAIN PermissionToWrite = Ranks(MPI_size)

\* C3 as stated: once every process has constructed, exactly one process holds the
\* write permission; with one process, that process holds it.
C3_ExactlyOneWriter ==
    AllConstructed
    => Cardinality({ p \in DOMAIN PermissionToWrite : PermissionToWrite[p] }) = 1

\* C3: with more than one process in the communicator every process has
\* PermissionToWrite false; with one process, or without MPI, it is true.
C3_NoWriterUnderMPI ==
    \A p \in DOMAIN PermissionToWrite : PermissionToWrite[p] = (MPI_size <= 1)

\* both processes of a communicator of two have constructed, neither may write
C3_Witness ==
    /\ MPI_size = 2
    /\ AllConstructed
    /\ \A p \in DOMAIN PermissionToWrite : ~PermissionToWrite[p]

\* C4: after the constructor, telescope_source_coverage and telescope_tile_struct
\* are both None if the call mutated; otherwise they are the values loaded from the
\* snapshot, or None when no snapshot was loaded.
C4_CoverageClearedOnMutation ==
    self # NoInstance
    => IF call.MUTATED
       THEN /\ self.telescope_source_coverage = NoCoverage
            /\ self.telescope_tile_struct = None
       ELSE IF call.loaded
       THEN /\ self.telescope_source_coverage = call.coverage
            /\ self.telescope_tile_struct = call.tile
       ELSE /\ self.telescope_source_coverage = NoCoverage
            /\ self.telescope_tile_struct = None

\* a mutating call that loaded a snapshot with a coverage and a tile structure
C4_Witness ==
    /\ self # NoInstance
    /\ call.MUTATED
    /\ ~ call.coverage.isNone
    /\ call.tile # None
    /\ self.telescope_source_coverage = NoCoverage
    /\ self.telescope_tile_struct = None

\* the overlay names a new file for the tesselation, the orbit, the save
NamesTesselation == "NewtesselationFile" \in KeysOf(call.overlay)
NamesOrbit == "NeworbitFile" \in KeysOf(call.overlay)
NamesSave == "NewExistentialFileName" \in KeysOf(call.overlay)

\* C5 as stated: a directive of the overlay is the path chosen for its artifact,
\* verbatim, whether or not the call mutated and whether or not the previous target
\* exists.
C5_DirectiveAlwaysVerbatim ==
    /\ NamesTesselation => call.tess1 = Get(call.kwargs, "NewtesselationFile")
    /\ NamesOrbit => call.orbit1 = Get(call.kwargs, "NeworbitFile")
    /\ NamesSave => call.save1 = Get(call.kwargs, "NewExistentialFileName")

\* C5: when the call mutated and, for the tesselation and the orbit file, the
\* previous target exists, a directive of the overlay is the path chosen for its
\* artifact and no version suffix is computed; the value is the one passed, except
\* that a NewExistentialFileName whose directory cannot be created has been moved
\* under SYNEX_PATH.
C5_DirectiveVerbatimWhenMutated ==
    /\ (NamesTesselation /\ call.MUTATED /\ call.tess0 \in call.diskBefore)
       => call.tess1 = Get(call.kwargs, "NewtesselationFile")
    /\ (NamesOrbit /\ call.MUTATED /\ call.orbit0 \in call.diskBefore)
       => call.orbit1 = Get(call.kwargs, "NeworbitFile")
    /\ (NamesSave /\ call.MUTATED)
       => call.save1 =
            IF MkdirFails(DirOf(Get(call.kwargs, "NewExistentialFileName")))
            THEN ToSynexPath(Get(call.kwargs, "NewExistentialFileName"))
            ELSE Get(call.kwargs, "NewExistentialFileName")

\* a mutating call whose tesselation and orbit files exist and are both renamed
C5_Witness ==
    /\ NamesTesselation /\ NamesOrbit
    /\ call.MUTATED
    /\ call.tess0 \in call.diskBefore
    /\ call.orbit0 \in call.diskBefore
    /\ call.tess1 = HeraTess
    /\ call.orbit1 = HeraOrbit

\* X and ext of a path X.ext, and the path X_n.ext
Stem(path) == JoinButLast(path, << "." >>)
Extension(path) == SplitLast(path, << "." >>)
Version(path, n) == Stem(path) \o << "_" >> \o Str(n) \o << "." >> \o Extension(path)

\* the path is some B_k.ext; then its k and its B.ext
HasVersion(path) ==
    Contains(Stem(path), << "_" >>) /\ CanInt(SplitLast(Stem(path), << "_" >>))
VersionOf(path) == IntVal(SplitLast(Stem(path), << "_" >>))
BaseOf(path) == JoinButLast(Stem(path), << "_" >>) \o << "." >> \o Extension(path)

\* X_n.ext for the least n >= from such that X_n.ext is not on the disk
RECURSIVE FirstFree(_, _, _)
FirstFree(path, from, disk) ==
    IF Version(path, from) \notin disk THEN Version(path, from)
    ELSE FirstFree(path, from + 1, disk)

\* the three artifacts of the last call: the path before and after the versioning
\* step, the disk the step looks at, and whether the overlay names the new path
Artifacts ==
    { [ old |-> call.tess0, new |-> call.tess1, disk |-> call.diskBefore,
        named |-> NamesTesselation \/ NamesSave ],
      [ old |-> call.orbit0, new |-> call.orbit1, disk |-> call.diskBefore,
        named |-> NamesOrbit \/ NamesSave ],
      [ old |-> call.save0, new |-> call.save1, disk |-> call.diskAtSave,
        named |-> NamesSave ] }

\* the artifact is versioned automatically
Automatic(a) == call.MUTATED /\ ~ a.named /\ a.old \in a.disk

\* C6 as stated: an automatically versioned artifact whose target X.ext exists
\* together with X_1.ext .. X_N.ext, but not X_{N+1}.ext, gets X_{N+1}.ext.
C6_NextVersionAfterTarget ==
    \A a \in Artifacts : Automatic(a) => a.new = FirstFree(a.old, 1, a.disk)

\* C6: an automatically versioned artifact whose target X.ext does not itself end in
\* _<k> and exists together with X_1.ext .. X_N.ext, but not X_{N+1}.ext, gets
\* X_{N+1}.ext; a target B_k.ext gets B_n.ext for the least n > k such that B_n.ext
\* does not exist.  The same for the tesselation, the orbit and the save file.
C6_NextVersionFromSuffix ==
    \A a \in Artifacts :
        Automatic(a)
        => a.new = IF HasVersion(a.old)
                   THEN FirstFree(BaseOf(a.old), VersionOf(a.old) + 1, a.disk)
                   ELSE FirstFree(a.old, 1, a.disk)

\* all three artifacts exist with a first version, and all three get the second
C6_Witness ==
    /\ ncalls > 0
    /\ \A a \in Artifacts :
          /\ Automatic(a)
          /\ ~ HasVersion(a.old)
          /\ Version(a.old, 1) \in a.disk
          /\ a.new = Version(a.old, 2)

\* the versioning step gave the artifact the suffix _n
Appended(a, n) ==
    /\ a.new # a.old
    /\ a.new = Version(IF HasVersion(a.old) THEN BaseOf(a.old) ELSE a.old, n)

\* the versioning step gave the artifact a suffix, the one its new path ends in
Suffixed(a) == a.new # a.old /\ HasVersion(a.new) /\ Appended(a, VersionOf(a.new))

\* C7: an artifact path gets a version suffix _n only if the path exists and the
\* call mutated; from a path that ends in _k the suffix has n > k; a path that does
\* not exist, or a call that did not mutate, leaves the path as it is.
C7_SuffixOnlyWhenMutatedAndExisting ==
    \A a \in Artifacts :
        /\ Suffixed(a)
           => /\ call.MUTATED
              /\ a.old \in a.disk
              /\ HasVersion(a.old) => VersionOf(a.new) > VersionOf(a.old)
        /\ ~ (call.MUTATED /\ a.old \in a.disk) => a.new = a.old

\* a path that ends in _1 is versioned to _2
C7_Witness ==
    \E a \in Artifacts :
        /\ call.MUTATED
        /\ HasVersion(a.old)
        /\ VersionOf(a.old) = 1
        /\ Appended(a, 2)

\* C8 as stated: an overlay with NewExistentialFileName makes the call mutated.
C8_DirectiveAlwaysMutates ==
    (ncalls > 0 /\ "NewExistentialFileName" \in KeysOf(call.kwargs)) => call.MUTATED

\* C8: when the constructor loads an existing snapshot, an overlay with
\* NewExistentialFileName makes the call mutated, whatever the other keys and values.
C8_DirectiveMutatesWhenLoaded ==
    (call.loaded /\ NamesSave) => call.MUTATED

\* a snapshot is loaded and the directive is the only key of the overlay
C8_Witness ==
    /\ call.loaded
    /\ KeysOf(call.overlay) = { "NewExistentialFileName" }
    /\ call.MUTATED

\* C9: when the constructor loads a snapshot, an overlay key that neither saved
\* dictionary has makes the call mutated, whatever the size of the overlay.
C9_MutatedWhenKeyUnknown ==
    (call.loaded /\ \E i \in 1..Len(call.overlay) : UnknownAt(i)) => call.MUTATED

\* the overlay in every iteration order of its keys
Reorderings(kwargs) ==
    { [ i \in 1..Len(kwargs) |-> kwargs[f[i]] ] : f \in Permutations(1..Len(kwargs)) }

\* C10: for the snapshot loaded and the key/value pairs of the overlay, the decision
\* is the same in every iteration order of the overlay.
C10_MutationOrderIndependent ==
    call.loaded
    => \A kwargs \in Reorderings(call.overlay) :
          Mutation(kwargs, SavedGo, SavedConfig) = call.MUTATED

\* the first key of the overlay is Tobs with the saved value, the second one differs
C10_Witness ==
    /\ call.loaded
    /\ Len(call.overlay) = 2
    /\ call.overlay[1][1] = "Tobs"
    /\ call.overlay[1][2] = SavedGo["Tobs"]
    /\ DiffersAt(2)
    /\ call.MUTATED

\* the merge of the last call: key and value at position i of the overlay, and
\* whether the dictionaries the merge loop starts from know the key
KeyAt(i) == call.overlay[i][1]
ValueAt(i) == call.overlay[i][2]
KnownToGo(i) == KeyAt(i) \in DOMAIN call.goB
KnownToConfig(i) == KeyAt(i) \in DOMAIN call.configB

\* the keys that are not in the overlay have the values they had before the overlay
\* was looked at
OthersKept ==
    /\ \A key \in DOMAIN call.go1 \ KeysOf(call.overlay) :
          key \in DOMAIN call.go0 /\ call.go1[key] = call.go0[key]
    /\ \A key \in DOMAIN call.config1 \ KeysOf(call.overlay) :
          key \in DOMAIN call.config0 /\ call.config1[key] = call.config0[key]
    /\ DOMAIN call.go0 \subseteq DOMAIN call.go1
    /\ DOMAIN call.config0 \subseteq DOMAIN call.config1

\* C11 as stated: every overlay key known to a dictionary is overwritten there, every
\* other overlay key is stored in telescope_config_struct and flagged as unknown, and
\* the keys not in the overlay keep their values.
C11_MergeStoresEveryKey ==
    /\ \A i \in 1..Len(call.overlay) :
          /\ KnownToGo(i) => call.go1[KeyAt(i)] = ValueAt(i)
          /\ KnownToConfig(i) => call.config1[KeyAt(i)] = ValueAt(i)
          /\ (~ KnownToGo(i) /\ ~ KnownToConfig(i))
             => /\ KeyAt(i) \in DOMAIN call.config1
                /\ call.config1[KeyAt(i)] = ValueAt(i)
                /\ KeyAt(i) \in call.unknown
    /\ OthersKept

\* C11: an overlay key of telescope_go_params is overwritten there; otherwise an
\* overlay key of telescope_config_struct is overwritten there; otherwise the key is
\* stored in telescope_config_struct and flagged as unknown (the reminder is set),
\* unless it is NewExistentialFileName or NeworbitFile, which are stored nowhere and
\* not flagged.  The keys not in the overlay keep their values.
C11_MergeStoresAllButTwoDirectives ==
    /\ \A i \in 1..Len(call.overlay) :
          IF KnownToGo(i) THEN call.go1[KeyAt(i)] = ValueAt(i)
          ELSE IF KnownToConfig(i) THEN call.config1[KeyAt(i)] = ValueAt(i)
          ELSE IF KeyAt(i) \in { "NewExistentialFileName", "NeworbitFile" }
          THEN /\ KeyAt(i) \notin DOMAIN call.go1 \cup DOMAIN call.config1
               /\ KeyAt(i) \notin call.unknown
          ELSE /\ KeyAt(i) \in DOMAIN call.config1
               /\ call.config1[KeyAt(i)] = ValueAt(i)
               /\ KeyAt(i) \in call.unknown
               /\ call.print_reminder
    /\ call.unknown \subseteq KeysOf(call.overlay)
    /\ OthersKept

\* an overlay that changes a known key of telescope_config_struct and brings an
\* unknown key
C11_Witness ==
    /\ \E i \in 1..Len(call.overlay) :
          /\ ~ KnownToGo(i) /\ KnownToConfig(i)
          /\ call.config0[KeyAt(i)] # ValueAt(i)
          /\ call.config1[KeyAt(i)] = ValueAt(i)
    /\ \E i \in 1..Len(call.overlay) :
          /\ KeyAt(i) \in call.unknown
          /\ call.config1[KeyAt(i)] = ValueAt(i)

\* the keys that name a new file
Directives == { "NewExistentialFileName", "NeworbitFile", "NewtesselationFile" }

\* C12: after the constructor none of the three directive keys is a key of
\* telescope_go_params or of telescope_config_struct, and none was flagged as unknown.
C12_DirectivesNeverStored ==
    \A key \in Directives :
        /\ key \notin DOMAIN self.telescope_go_params
        /\ key \notin DOMAIN self.telescope_config_struct
        /\ key \notin call.unknown

\* C13: after the constructor every key of the default dictionaries has a value in
\* the corresponding dictionary of the instrument; a key that the snapshot lacks and
\* the overlay does not give has the default value.
C13_EveryDefaultKeyHasValue ==
    self # NoInstance
    => /\ \A key \in DOMAIN go_params_default0 :
             /\ key \in DOMAIN self.telescope_go_params
             /\ (call.loaded /\ key \notin DOMAIN SavedGo
                    /\ key \notin KeysOf(call.overlay))
                => self.telescope_go_params[key] = go_params_default0[key]
       /\ \A key \in DOMAIN config_struct_default0 :
             key \in DOMAIN self.telescope_config_struct

\* the last call loaded a snapshot and had nothing but ExistentialFileName
Reloaded == call.loaded /\ call.overlay = << >>

\* the dictionaries, the coverage and the tile structure of two snapshots are equal
SameInstrument(d1, d2) ==
    /\ d1.telescope_go_params = d2.telescope_go_params
    /\ d1.telescope_config_struct = d2.telescope_config_struct
    /\ d1.telescope_source_coverage = d2.telescope_source_coverage
    /\ d1.telescope_tile_struct = d2.telescope_tile_struct

\* C14: a construction with nothing but the ExistentialFileName of a saved instrument
\* is not mutated, keeps the file name, and gives an instrument whose dictionaries
\* (without orbit_dict and tesselation), coverage and tile structure are those of the
\* snapshot; the snapshot it leaves at that path is again equal to the one it loaded,
\* so that the next reload starts from the same.
C14_ReloadIdempotent ==
    Reloaded
    => /\ ~ call.MUTATED
       /\ call.save1 = call.SavedDict.ExistentialFileName
       /\ SameInstrument(MyExistentialDict(self), call.SavedDict)
       /\ call.save1 \in DOMAIN pickles
       /\ SameInstrument(pickles[call.save1], call.SavedDict)

\* the second reload in a row: the snapshot loaded, with its coverage, is the one the
\* previous process of the communicator left after its own reload
C14_Witness ==
    /\ Reloaded
    /\ ncalls = 2
    /\ ~ call.SavedDict.PermissionToWrite
    /\ ~ call.SavedDict.telescope_source_coverage.isNone
    /\ ~ self.telescope_source_coverage.isNone

\* the snapshot that the last operation wrote
LastSnapshot == pickles[self.ExistentialFileName]

\* C15 as stated: every snapshot written has the five keys.
C15_SnapshotHasFiveKeys ==
    self # NoInstance
    => { "telescope_go_params", "telescope_config_struct", "telescope_source_coverage",
         "telescope_tile_struct", "MutatedFromTelescopeFile" } \subseteq LastSnapshot.attrs

\* C15: every snapshot written has the keys telescope_go_params,
\* telescope_config_struct, telescope_source_coverage and telescope_tile_struct; it
\* has the key MutatedFromTelescopeFile exactly when the instrument was constructed
\* from an existing snapshot.
C15_SnapshotHasFourKeys ==
    self # NoInstance
    => /\ self.ExistentialFileName \in DOMAIN pickles
       /\ { "telescope_go_params", "telescope_config_struct",
            "telescope_source_coverage", "telescope_tile_struct" }
          \subseteq LastSnapshot.attrs
       /\ "MutatedFromTelescopeFile" \in LastSnapshot.attrs <=> call.loaded

\* the snapshot of a construction that loaded nothing
C15_Witness ==
    /\ self # NoInstance
    /\ ~ call.loaded
    /\ self.ExistentialFileName \in call.written
    /\ "telescope_tile_struct" \in LastSnapshot.attrs
    /\ "MutatedFromTelescopeFile" \notin LastSnapshot.attrs

\* the ExistentialFileName the last call was given
GivenFileName == Get(call.kwargs, "ExistentialFileName")

\* the last call was given an ExistentialFileName at which there was no file
GivenButMissing == call.resurrect /\ ~ call.loaded

\* such a call starts from the default dictionaries, is not mutated, and has written
\* its snapshot at the path it was given by the time it returns
WritesWhereGiven ==
    GivenButMissing
    => /\ call.go0 = go_params_default0
       /\ call.config0 = config_struct_default0
       /\ ~ call.MUTATED
       /\ call.save1 = GivenFileName
       /\ GivenFileName \in call.written
       /\ GivenFileName \in files
       /\ GivenFileName \in DOMAIN pickles
       /\ SameInstrument(pickles[GivenFileName], MyExistentialDict(self))

\* a later construction with the same ExistentialFileName loads that snapshot
LoadsWhatWasWritten ==
    (GivenButMissing /\ ncalls' = ncalls + 1 /\ call'.resurrect
        /\ Get(call'.kwargs, "ExistentialFileName") = GivenFileName)
    => /\ call'.loaded
       /\ SameInstrument(call'.SavedDict, MyExistentialDict(self))

Traces ==
    << kuiper.tile_kuiper_p_val_trace, kuiper.tile_detection_p_val_trace,
       kuiper.exposure_kuiper_trace, kuiper.exposure_kuiper_p_val_trace,
       kuiper.detection_kuiper_p_val_trace, kuiper.accum_exposure_photons_trace,
       kuiper.exposure_photons_trace >>

\* C17: whenever GetKuiper is between two tiles or has ended, each of its seven
\* traces is as long as the number of tiles consumed.
C17_TracesAsLongAsConsumed ==
    \A t \in 1..Len(Traces) : Len(Traces[t]) = kuiper.consumed

\* the tile that the next iteration consumes holds the source or not
TileOutOfSource ==
    /\ kuiper.pc = "loop"
    /\ ~ kuiper.reduced[kuiper.consumed + 1].inTile

\* the last record of a trace, or the initial value when it has none
LastOr(trace, initial) == IF trace = << >> THEN initial ELSE trace[Len(trace)]

\* C18: an iteration on a tile that does not hold the source, the first one
\* included, completes without error, adds no photon to the pool and appends to the
\* p-value traces what their previous record held (the initial value when none).
C18_CarryForwardCompletes ==
    [][ TileOutOfSource =>
          /\ kuiper'.pc # "raised"
          /\ kuiper'.exposure_photons = kuiper.exposure_photons
          /\ kuiper'.exposure_t_is = kuiper.exposure_t_is
          /\ LastOr(kuiper'.tile_kuiper_p_val_trace, PScale)
               = LastOr(kuiper.tile_kuiper_p_val_trace, PScale)
          /\ LastOr(kuiper'.exposure_kuiper_p_val_trace, PScale)
               = LastOr(kuiper.exposure_kuiper_p_val_trace, PScale)
          /\ LastOr(kuiper'.tile_detection_p_val_trace, PScale)
               = LastOr(kuiper.tile_detection_p_val_trace, PScale)
          /\ LastOr(kuiper'.detection_kuiper_p_val_trace, PScale)
               = LastOr(kuiper.detection_kuiper_p_val_trace, PScale) ]_vars

\* the smaller of two numbers
Smaller(a, b) == IF a < b THEN a ELSE b

\* C19: tile selection never raises, and the tiles it selects are as many as the
\* smaller of n_times and the number of tiles in the file.
C19_TruncationNeverFails ==
    /\ kuiper.error # "ValueError"
    /\ kuiper.pc \in { "loop", "done" } =>
         Len(kuiper.reduced) = Smaller(kuiper.n_times0, Len(kuiper.TileDict))
    /\ kuiper.pc = "done" =>
         kuiper.consumed = Smaller(kuiper.n_times0, Len(kuiper.TileDict))

\* the half-open window of the i-th consumed tile (i from 1)
InHalfOpenWindow(time, i) ==
    /\ kuiper.TimeToMerger + (i - 1) * Latency <= time
    /\ time < kuiper.TimeToMerger + i * Latency

\* C20: when GetKuiper has ended, every photon that arrived in the half-open window
\* of a tile that holds the source has been gathered.
C20_WindowsHalfOpen ==
    kuiper.pc = "done" =>
      \A p \in 1..Len(kuiper.t_is_merger), i \in 1..kuiper.consumed :
         ( kuiper.reduced[i].inTile /\ InHalfOpenWindow(kuiper.t_is_merger[p], i) )
           => \E g \in 1..Len(kuiper.exposure_t_is) :
                 kuiper.exposure_t_is[g] = kuiper.t_is_merger[p]

\* the four traces of p-values (lines 536, 537, 539, 540)
PValTraces ==
    << kuiper.tile_kuiper_p_val_trace, kuiper.exposure_kuiper_p_val_trace,
       kuiper.detection_kuiper_p_val_trace, kuiper.tile_detection_p_val_trace >>

\* C21: every value in the tile, exposure, detection and tile detection p-value
\* traces is between 0 and 1, whatever the photons and the number of exposures.
C21_PValuesInUnitInterval ==
    \A t \in 1..Len(PValTraces) : \A i \in 1..Len(PValTraces[t]) :
        0 <= PValTraces[t][i] /\ PValTraces[t][i] <= PScale

\* GetKuiper has ended after two exposures, the second with a p-value strictly
\* between 0 and 1 that the exponent turns into a detection p-value of 1
C21_Witness ==
    /\ kuiper.pc = "done"
    /\ kuiper.n_exposures = 2
    /\ kuiper.exposure_kuiper_p_val_trace[2] = 1
    /\ kuiper.detection_kuiper_p_val_trace[2] = PScale
    /\ kuiper.tile_detection_p_val_trace[1] = 0

\* sum(list)
RECURSIVE SumOf(_)
SumOf(list) == IF list = << >> THEN 0 ELSE list[1] + SumOf(Tail(list))

\* the consumed tiles that contained the source
ConsumedInSource == { i \in 1..kuiper.consumed : kuiper.reduced[i].inTile }

\* the accumulated photon count recorded before record i
AccumBefore(i) == IF i = 1 THEN 0 ELSE kuiper.accum_exposure_photons_trace[i - 1]

\* C26: between two tiles and at the end of GetKuiper, n_exposures is the number of
\* consumed tiles that contained the source and the length of exposure_tiles and of
\* n_photons; accum_exposure_photons_trace never decreases, repeats its previous
\* record on a tile without the source, and ends with sum(n_photons).
C26_AccumulatorBookkeeping ==
    /\ kuiper.n_exposures = Cardinality(ConsumedInSource)
    /\ kuiper.n_exposures = Len(kuiper.exposure_tiles)
    /\ kuiper.n_exposures = Len(kuiper.n_photons_list)
    /\ \A i \in 1..Len(kuiper.accum_exposure_photons_trace) :
          /\ AccumBefore(i) <= kuiper.accum_exposure_photons_trace[i]
          /\ ~ kuiper.reduced[i].inTile =>
                kuiper.accum_exposure_photons_trace[i] = AccumBefore(i)
    /\ kuiper.accum_exposure_photons_trace # << >> =>
          kuiper.accum_exposure_photons_trace[Len(kuiper.accum_exposure_photons_trace)]
            = SumOf(kuiper.n_photons_list)

\* three tiles consumed, the last without the source, a photon gathered in each of
\* the first two
C26_Witness ==
    /\ kuiper.pc = "done"
    /\ kuiper.consumed = 3
    /\ ConsumedInSource = { 1, 2 }
    /\ kuiper.accum_exposure_photons_trace = << 1, 2, 2 >>
    /\ kuiper.n_photons_list = << 1, 1 >>

\* C28: GetKuiper on an instrument that __init__ produced does not raise on a name
\* or an attribute it reads before its loop: the posterior data file name of line
\* 397 and self.T_lat of line 407 are defined.
C28_NamesDefinedBeforeLoop ==
    /\ "T_lat" \notin self.attrs
    /\ kuiper.pc = "raised"
    => kuiper.error \notin { "NameError", "AttributeError" }

\* the instrument that Athena() gives in a process that has constructed nothing yet,
\* on the disk as it is
Pristine ==
    AthenaInit(<< >>, MPI_size, files, pickles,
               go_params_default0, config_struct_default0).self

\* C23: when a process has constructed an instrument without a snapshot and with an
\* overlay, the instrument it constructs next without a snapshot and with an empty
\* overlay has the parameter mappings of a construction from the pristine defaults.
C23_MergeLeavesDefaultsPristine ==
    [][ ( /\ ncalls > 0
          /\ ~ call.loaded
          /\ call.kwargs # << >>
          /\ ncalls' = ncalls + 1
          /\ call'.kwargs = << >> )
        => /\ self'.telescope_go_params = Pristine.telescope_go_params
           /\ self'.telescope_config_struct = Pristine.telescope_config_struct ]_vars

\* the last call was a fresh construction by a process that may write: no
\* ExistentialFileName, no file directive, a circular field of view, no single
\* exposure, and no tesselation file on the disk
FreshCall ==
    /\ ncalls > 0
    /\ KeysOf(call.kwargs) \cap { "ExistentialFileName", "NewExistentialFileName",
                                  "NewtesselationFile", "NeworbitFile" } = {}
    /\ call.WriteToFile
    /\ call.tess1 \notin call.diskBefore
    /\ call.config1["FOV_type"] = << "circle" >>
    /\ call.go1["doSingleExposure"] = << "False" >>

\* the save files among the paths the last constructor call wrote to
SavesWritten ==
    { w \in call.written : Len(w) > Len(SaveDir) /\ SubSeq(w, 1, Len(SaveDir)) = SaveDir }

\* C22: a fresh construction by a process that may write writes one save file, at
\* the default path, which has the name of the tesselation file and no version
\* suffix, and the call is not mutated.
C22_FreshConstructionSavesOnce ==
    FreshCall =>
      /\ ~ call.MUTATED
      /\ SavesWritten = { call.save1 }
      /\ ~ HasVersion(call.save1)
      /\ Stem(SplitLast(call.save1, << "/" >>)) = Stem(SplitLast(call.tess1, << "/" >>))
      /\ call.save1 = AthenaDat
      /\ call.save1 \in DOMAIN pickles

\* Athena() on an empty disk has written Athena.dat
C22_Witness ==
    /\ FreshCall
    /\ call.diskBefore = {}
    /\ AthenaDat \in files

\* the two entries that are recomputed at every construction
Recomputed == { "orbit_dict", "tesselation" }

\* the instrument in memory holds orbit_dict and tesselation, no snapshot on the disk
\* holds either
OnlyInMemory ==
    /\ self # NoInstance => Recomputed \subseteq DOMAIN self.telescope_config_struct
    /\ \A f \in DOMAIN pickles :
          Recomputed \cap DOMAIN pickles[f].telescope_config_struct = {}

\* an explicit save changes of the instrument at most its ExistentialFileName, and
\* writes the snapshot there
SaveKeepsInstrument ==
    nsaves' = nsaves + 1
    => /\ self' = [ self EXCEPT !.ExistentialFileName = self'.ExistentialFileName ]
       /\ self'.ExistentialFileName \in DOMAIN pickles'
       /\ pickles'[self'.ExistentialFileName].telescope_go_params
            = self.telescope_go_params

\* C24: ExistentialCrisis changes nothing of the instrument in memory but its
\* ExistentialFileName; after any save the instrument still holds orbit_dict and
\* tesselation in telescope_config_struct and the written snapshot holds neither.
C24_SaveStripsOnlyTheCopy == [] OnlyInMemory /\ [][SaveKeepsInstrument]_vars

\* an explicit save under a new name has happened
C24_Witness ==
    /\ nsaves > 0
    /\ self.ExistentialFileName = Athena1Dat
    /\ call.save1 # Athena1Dat
    /\ Recomputed \subseteq DOMAIN self.telescope_config_struct
    /\ Recomputed \cap DOMAIN pickles[Athena1Dat].telescope_config_struct = {}

\* the orbit path of the last call, as handed to the orbit collaborator (line 275)
OrbitPath == self.telescope_config_struct["orbitFile"]

\* C25: the orbit collaborator is asked to write the orbit file exactly when the
\* process may write and the call mutated or no file is at the orbit path; it writes
\* exactly then, so an existing orbit file of a call that did not mutate is not
\* written again.
C25_OrbitSavedWhenPermittedAndNeeded ==
    ncalls > 0 =>
      /\ call.SAVETOFILE <=>
           ( call.WriteToFile /\ ( call.MUTATED \/ OrbitPath \notin call.diskBefore ) )
      /\ OrbitPath \in call.written <=> call.SAVETOFILE
      /\ ( ~ call.MUTATED /\ OrbitPath \in call.diskBefore ) => OrbitPath \notin call.written

\* a process that may write loaded a snapshot without mutating it, found the orbit
\* file and left it alone
C25_Witness ==
    /\ ncalls > 0
    /\ call.WriteToFile
    /\ call.loaded
    /\ ~ call.MUTATED
    /\ OrbitPath \in call.diskBefore
    /\ ~ call.SAVETOFILE

\* the last call mutated: it loaded the snapshot at call.save0, and the instrument
\* remembers that path
MutatedFromLoaded ==
    /\ call.loaded
    /\ call.save0 \in call.diskBefore
    /\ "MutatedFromTelescopeFile" \in self.attrs
    /\ self.MutatedFromTelescopeFile = call.save0

\* the final ExistentialFileName was found by automatic versioning: it is another
\* path than the loaded one, no file was there, and the loaded snapshot is not written
VersionedAway ==
    /\ call.save1 # call.save0
    /\ call.save1 \notin call.diskAtSave
    /\ call.save0 \notin call.written

====
